---- MODULE Spec2Model ----
(***************************************************************************)
(* Model of translit_api_demo.py: get_kannada_transliteration (one HTTP    *)
(* GET, JSON decode, unwrap of the provider's nested array) and the        *)
(* interactive loop under  if __name__ == "__main__".                      *)
(*                                                                         *)
(* Python values are tagged records [t, v]; a Python str is the sequence   *)
(* of its characters, so that indexing, lower() and strip() are computed.  *)
(* None is the decoded JSON null.                                          *)
(***************************************************************************)
EXTENDS Integers, Sequences, FiniteSets, TLC

VARIABLES
    caller,          \* "main": the __main__ loop runs; "direct": the function is called by an importer
    pc,              \* position in the program
    linesRead,       \* number of input() calls that returned a line
    text_to_convert, \* line 81
    input_text,      \* the function's argument
    params,          \* lines 20-29, the query of the request
    response,        \* line 32
    data,            \* line 59
    exc,             \* the exception raised inside the try block, "" if none
    handler,         \* the except clause that handled the call's exception
    result,          \* what the call produced: a returned value or an escaped exception
    fnPrinted,       \* what the function printed during the call
    loopPrinted,     \* what the loop printed for the line
    netRequests,     \* requests.get invocations during the current call
    callsForLine,    \* calls of the function made for the current line
    fatal            \* the uncaught exception that ended the process, "" if none

vars == <<caller, pc, linesRead, text_to_convert, input_text, params, response,
          data, exc, handler, result, fnPrinted, loopPrinted, netRequests,
          callsForLine, fatal>>

----------------------------------------------------------------------------
(* Bounds of the model *)

MaxLines == 2        \* lines the user types before the model stops reading
MaxSugLen == 6       \* longest suggestions array the provider sends

----------------------------------------------------------------------------
(* Python values *)

JNull == [t |-> "null", v |-> 0]
JBool(b) == [t |-> "bool", v |-> b]
JNum(n) == [t |-> "num", v |-> n]
JStr(s) == [t |-> "str", v |-> s]
JArr(s) == [t |-> "arr", v |-> s]
JObj(s) == [t |-> "obj", v |-> s]     \* s: sequence of [k, val] members

None == JNull
EmptyList == JArr(<< >>)

SUCCESS == JStr(<<"S", "U", "C", "C", "E", "S", "S">>)

\* bool(x)
Truthy(x) ==
    CASE x.t = "null" -> FALSE
      [] x.t = "bool" -> x.v
      [] x.t = "num"  -> x.v # 0
      [] OTHER        -> Len(x.v) > 0

Ok(x) == [ok |-> TRUE, val |-> x]
Raise(e) == [ok |-> FALSE, val |-> e]

\* x[i] for an int i >= 0
Index(x, i) ==
    CASE x.t = "arr" -> IF i < Len(x.v) THEN Ok(x.v[i + 1]) ELSE Raise("IndexError")
      [] x.t = "str" -> IF i < Len(x.v) THEN Ok(JStr(<<x.v[i + 1]>>)) ELSE Raise("IndexError")
      [] x.t = "obj" -> Raise("KeyError")     \* the keys of a decoded object are str
      [] OTHER       -> Raise("TypeError")    \* None, bool, int: not subscriptable

\* data[0] == "SUCCESS": a str equals only a str with the same characters
PyEq(x, y) == x.t = y.t /\ x.v = y.v

\* Unwrap returning the entry's first element, the echoed input: data[1][0][0]
UnwrapEcho(d) ==
    LET status == Index(d, 0) IN
    IF ~status.ok THEN status
    ELSE IF ~PyEq(status.val, SUCCESS) THEN Ok(EmptyList)
    ELSE LET payload == Index(d, 1) IN
         IF ~payload.ok THEN payload
         ELSE IF ~Truthy(payload.val) THEN Ok(EmptyList)
         ELSE LET entry == Index(payload.val, 0) IN
              IF ~entry.ok THEN entry
              ELSE Index(entry.val, 0)

\* Unwrap without the test of the payload: if data[0] == "SUCCESS":
UnwrapNoPayloadTest(d) ==
    LET status == Index(d, 0) IN
    IF ~status.ok THEN status
    ELSE IF ~PyEq(status.val, SUCCESS) THEN Ok(EmptyList)
    ELSE LET payload == Index(d, 1) IN
         IF ~payload.ok THEN payload
         ELSE LET entry == Index(payload.val, 0) IN
              IF ~entry.ok THEN entry
              ELSE Index(entry.val, 1)

\* Unwrap cutting the list to the first five: return suggestions[:5]
UnwrapTruncating(d) ==
    LET status == Index(d, 0) IN
    IF ~status.ok THEN status
    ELSE IF ~PyEq(status.val, SUCCESS) THEN Ok(EmptyList)
    ELSE LET payload == Index(d, 1) IN
         IF ~payload.ok THEN payload
         ELSE IF ~Truthy(payload.val) THEN Ok(EmptyList)
         ELSE LET entry == Index(payload.val, 0) IN
              IF ~entry.ok THEN entry
              ELSE LET s == Index(entry.val, 1) IN
                   IF s.ok /\ s.val.t = "arr" /\ Len(s.val.v) > 5
                   THEN Ok(JArr(SubSeq(s.val.v, 1, 5)))
                   ELSE s

\* lines 61-66: the value returned, or the class of the exception raised
Unwrap(d) ==
    LET status == Index(d, 0) IN
    IF ~status.ok THEN status
    ELSE IF ~PyEq(status.val, SUCCESS) THEN Ok(EmptyList)
    ELSE LET payload == Index(d, 1) IN
         IF ~payload.ok THEN payload
         ELSE IF ~Truthy(payload.val) THEN Ok(EmptyList)
         ELSE LET entry == Index(payload.val, 0) IN
              IF ~entry.ok THEN entry
              ELSE Index(entry.val, 1)

----------------------------------------------------------------------------
(* Exceptions: a class and the classes it inherits from *)

Bases(e) ==
    CASE e = "ConnectionError" -> {"ConnectionError", "RequestException"}
      [] e = "Timeout" -> {"Timeout", "RequestException"}
      [] e = "HTTPError" -> {"HTTPError", "RequestException"}
      \* requests >= 2.27: requests.exceptions.JSONDecodeError(InvalidJSONError, json.JSONDecodeError)
      [] e = "requests.JSONDecodeError" ->
            {"requests.JSONDecodeError", "InvalidJSONError", "RequestException",
             "json.JSONDecodeError", "ValueError"}
      \* requests < 2.27 over the standard json module
      [] e = "json.JSONDecodeError" -> {"json.JSONDecodeError", "ValueError"}
      [] e = "IndexError" -> {"IndexError", "LookupError"}
      [] e = "KeyError" -> {"KeyError", "LookupError"}
      [] e = "TypeError" -> {"TypeError"}
      [] OTHER -> {e}

\* what requests.get raises when no response arrives
TransportErrors == {"ConnectionError", "Timeout"}

\* what response.json() raises on a body that is not JSON: the class depends on
\* the installed requests, which the repository does not pin
JsonErrors == {"requests.JSONDecodeError", "json.JSONDecodeError"}

\* raise_for_status raising for server errors only
IsBadStatus5xx(status) == 500 <= status /\ status < 600

\* response.raise_for_status(): HTTPError for 4xx and 5xx
IsBadStatus(status) == 400 <= status /\ status < 600

\* lines 68-76: the first except clause whose class the exception is an instance of
Handler(e) ==
    IF "RequestException" \in Bases(e) THEN "RequestException"
    ELSE IF "json.JSONDecodeError" \in Bases(e) THEN "JSONDecodeError"
    ELSE IF Bases(e) \cap {"IndexError", "TypeError"} # {} THEN "IndexError,TypeError"
    ELSE "uncaught"

\* the message each except clause prints
Message(h) ==
    CASE h = "RequestException" -> "Error during request"
      [] h = "JSONDecodeError" -> "Error: Could not decode JSON response"
      [] h = "IndexError,TypeError" -> "Error parsing JSON structure"

----------------------------------------------------------------------------
(* str methods used by the loop *)

UpperChars == <<"Q", "U", "I", "T", "A">>
LowerChars == <<"q", "u", "i", "t", "a">>

LowerChar(c) ==
    IF \E i \in 1..Len(UpperChars) : UpperChars[i] = c
    THEN LowerChars[CHOOSE i \in 1..Len(UpperChars) : UpperChars[i] = c]
    ELSE c

\* s.lower()
Lower(s) == [i \in 1..Len(s) |-> LowerChar(s[i])]

IsSpace(c) == c \in {" ", "\t"}

RECURSIVE LStrip(_)
LStrip(s) == IF s # << >> /\ IsSpace(Head(s)) THEN LStrip(Tail(s)) ELSE s

RECURSIVE RStrip(_)
RStrip(s) ==
    IF s # << >> /\ IsSpace(s[Len(s)]) THEN RStrip(SubSeq(s, 1, Len(s) - 1)) ELSE s

\* s.strip()
Strip(s) == RStrip(LStrip(s))

Quit == <<"q", "u", "i", "t">>

\* line 82
IsQuit(line) == Lower(line) = Quit

\* the blank test without strip(): if not text_to_convert
IsBlankNoStrip(line) == ~Truthy(JStr(line))

\* line 84
IsBlank(line) == ~Truthy(JStr(Strip(line)))

----------------------------------------------------------------------------
(* What the user types and what the provider sends *)

\* lines typed at the prompt
Lines ==
    { << >>, <<" ">>, <<" ", "\t">>,
      <<"q", "u", "i", "t">>, <<"Q", "U", "I", "T">>, <<"Q", "u", "i", "T">>,
      <<" ", "q", "u", "i", "t">>, <<"a">>, <<"a", " ">> }

\* arguments an importing caller passes
DirectInputs == { << >>, <<" ">>, <<"a">> }

SeqsUpTo(S, n) == UNION { [1..k -> S] : k \in 0..n }

Sug1 == JStr(<<"k", "a">>)
Sug2 == JStr(<<"k">>)
Echo == JStr(<<"a">>)

\* values of every JSON type, empty and not
OddValues ==
    { JNull, JBool(TRUE), JBool(FALSE), JNum(0), JNum(5),
      JStr(<< >>), JStr(<<"e">>), JStr(<<"h", "i">>),
      JObj(<< >>), JObj(<< [k |-> <<"error">>, val |-> JNum(1)] >>) }

StringSuggs == { JArr(s) : s \in SeqsUpTo({Sug1, Sug2}, MaxSugLen) }

Suggs == StringSuggs \cup { JArr(<<Sug1, JNum(5)>>), JArr(<<JNull>>) } \cup OddValues

Entries ==
    OddValues \cup { JArr(<< >>), JArr(<<Echo>>) }
      \cup { JArr(<<Echo, s>>) : s \in Suggs }
      \cup { JArr(<<Echo, s, JArr(<< >>), JObj(<< >>)>>) : s \in Suggs }

Payloads ==
    OddValues \cup { JArr(<< >>) }
      \cup { JArr(<<e>>) : e \in Entries }
      \cup { JArr(<<e, JArr(<<Echo, JArr(<<Sug2>>)>>)>>) : e \in Entries }

StatusValues == { SUCCESS, JStr(<<"E", "R", "R">>), JNum(0) }

\* decoded bodies
Datas ==
    OddValues \cup { JArr(<< >>) }
      \cup { JArr(<<st>>) : st \in StatusValues }
      \cup { JArr(<<st, p>>) : st \in StatusValues, p \in Payloads }

JsonBody(d) == [t |-> "json", v |-> d]
TextBody == [t |-> "text", v |-> 0]      \* a body that is not JSON

Bodies == { JsonBody(d) : d \in Datas } \cup { TextBody }

HttpResponse(status, body) == [status |-> status, body |-> body]

\* responses requests.get returns: redirects are followed, so a 3xx that arrives
\* is one without a Location (300, 304)
Responses ==
    { HttpResponse(st, b) : st \in {200, 304}, b \in Bodies }
      \cup { HttpResponse(st, b) : st \in {404, 500},
                                   b \in { TextBody, JsonBody(JArr(<<SUCCESS, JArr(<< >>)>>)),
                                           JsonBody(JArr(<<SUCCESS,
                                               JArr(<<JArr(<<Echo, JArr(<<Sug1>>)>>)>>)>>)) } }

----------------------------------------------------------------------------
(* State *)

NoValue == [t |-> "unset", v |-> 0]
NoResponse == HttpResponse(0, NoValue)
NoParams == [text |-> << >>, itc |-> "", num |-> 0, cp |-> 0, cs |-> 0,
             ie |-> "", oe |-> "", app |-> ""]
NoResult == [kind |-> "none", val |-> NoValue]
NoPrint == [msg |-> "", items |-> << >>]

Return(x) == [kind |-> "return", val |-> x]
Raised(e) == [kind |-> "raise", val |-> e]

\* line 23
NumSuggestions == 5

\* lines 20-29
Params(text) ==
    [text |-> text, itc |-> "kn-t-i0-und", num |-> NumSuggestions, cp |-> 0,
     cs |-> 1, ie |-> "utf-8", oe |-> "utf-8", app |-> "demopage"]

NoCall ==
    /\ params = NoParams
    /\ response = NoResponse
    /\ data = NoValue
    /\ exc = ""
    /\ handler = ""
    /\ result = NoResult
    /\ fnPrinted = ""
    /\ netRequests = 0

Init ==
    /\ linesRead = 0
    /\ text_to_convert = << >>
    /\ loopPrinted = NoPrint
    /\ callsForLine = 0
    /\ fatal = ""
    /\ NoCall
    /\ \/ caller = "main" /\ pc = "prompt" /\ input_text = << >>
       \/ caller = "direct" /\ pc = "entry" /\ input_text \in DirectInputs

----------------------------------------------------------------------------
(* The function *)

\* the emptiness test as  if input_text is None, never true of a str
IsEmptyInputIsNone(text) == text # text

\* line 15: not input_text
IsEmptyInput(text) == ~Truthy(JStr(text))

\* lines 15-29: the emptiness test and the query
Enter ==
    /\ pc = "entry"
    /\ callsForLine' = callsForLine + 1
    /\ IF IsEmptyInput(input_text)
       THEN /\ result' = Return(EmptyList)
            /\ pc' = "returned"
            /\ UNCHANGED params
       ELSE /\ params' = Params(input_text)
            /\ pc' = "get"
            /\ UNCHANGED result
    /\ UNCHANGED <<caller, linesRead, text_to_convert, input_text, response, data,
                   exc, handler, fnPrinted, loopPrinted, netRequests, fatal>>

\* line 32: requests.get raises, or returns a response
Get ==
    /\ pc = "get"
    /\ netRequests' = netRequests + 1
    /\ \/ \E e \in TransportErrors :
             /\ exc' = e
             /\ pc' = "except"
             /\ UNCHANGED response
       \/ \E r \in Responses :
             /\ response' = r
             /\ pc' = "raise_for_status"
             /\ UNCHANGED exc
    /\ UNCHANGED <<caller, linesRead, text_to_convert, input_text, params, data,
                   handler, result, fnPrinted, loopPrinted, callsForLine, fatal>>

\* line 33
RaiseForStatus ==
    /\ pc = "raise_for_status"
    /\ IF IsBadStatus(response.status)
       THEN exc' = "HTTPError" /\ pc' = "except"
       ELSE exc' = exc /\ pc' = "json"
    /\ UNCHANGED <<caller, linesRead, text_to_convert, input_text, params, response,
                   data, handler, result, fnPrinted, loopPrinted, netRequests,
                   callsForLine, fatal>>

\* line 59: response.json()
Json ==
    /\ pc = "json"
    /\ IF response.body.t = "json"
       THEN /\ data' = response.body.v
            /\ pc' = "unwrap"
            /\ UNCHANGED exc
       ELSE /\ \E e \in JsonErrors : exc' = e
            /\ pc' = "except"
            /\ UNCHANGED data
    /\ UNCHANGED <<caller, linesRead, text_to_convert, input_text, params, response,
                   handler, result, fnPrinted, loopPrinted, netRequests, callsForLine,
                   fatal>>

\* lines 61-66
Extract ==
    /\ pc = "unwrap"
    /\ LET r == Unwrap(data) IN
       IF r.ok
       THEN /\ result' = Return(r.val)
            /\ pc' = "returned"
            /\ UNCHANGED exc
       ELSE /\ exc' = r.val
            /\ pc' = "except"
            /\ UNCHANGED result
    /\ UNCHANGED <<caller, linesRead, text_to_convert, input_text, params, response,
                   data, handler, fnPrinted, loopPrinted, netRequests, callsForLine,
                   fatal>>

\* except clauses that try the request again
ExceptRetrying ==
    /\ pc = "except"
    /\ pc' = "get"
    /\ UNCHANGED <<caller, linesRead, text_to_convert, input_text, params, response,
                   data, exc, handler, result, fnPrinted, loopPrinted, netRequests,
                   callsForLine, fatal>>

\* lines 68-76: a matching clause prints and returns None; with none matching the
\* exception leaves the function, and in the loop nothing catches it
Except ==
    /\ pc = "except"
    /\ handler' = Handler(exc)
    /\ IF Handler(exc) # "uncaught"
       THEN /\ fnPrinted' = Message(Handler(exc))
            /\ result' = Return(None)
            /\ pc' = "returned"
            /\ UNCHANGED fatal
       ELSE /\ result' = Raised(exc)
            /\ IF caller = "main"
               THEN pc' = "crashed" /\ fatal' = exc
               ELSE pc' = "raised" /\ fatal' = fatal
            /\ UNCHANGED fnPrinted
    /\ UNCHANGED <<caller, linesRead, text_to_convert, input_text, params, response,
                   data, exc, loopPrinted, netRequests, callsForLine>>

----------------------------------------------------------------------------
(* The loop *)

\* iter(x) of the for statement, line 95
Items(x) ==
    CASE x.t = "arr" -> x.v
      [] x.t = "str" -> [i \in 1..Len(x.v) |-> JStr(<<x.v[i]>>)]
      [] x.t = "obj" -> [i \in 1..Len(x.v) |-> JStr(x.v[i].k)]

IsIterable(x) == x.t \in {"arr", "str", "obj"}

\* lines 81-87: one line is read; quit breaks, a blank line continues, any other
\* line is passed to the function
ReadLine ==
    /\ caller = "main"
    /\ pc = "prompt"
    /\ linesRead < MaxLines
    /\ \E line \in Lines :
          /\ text_to_convert' = line
          /\ IF IsQuit(line) THEN pc' = "exited" /\ UNCHANGED input_text
             ELSE IF IsBlank(line) THEN pc' = "prompt" /\ UNCHANGED input_text
             ELSE pc' = "entry" /\ input_text' = line
    /\ linesRead' = linesRead + 1
    /\ callsForLine' = 0
    /\ loopPrinted' = NoPrint
    /\ params' = NoParams
    /\ response' = NoResponse
    /\ data' = NoValue
    /\ exc' = ""
    /\ handler' = ""
    /\ result' = NoResult
    /\ fnPrinted' = ""
    /\ netRequests' = 0
    /\ UNCHANGED <<caller, fatal>>

\* line 81 at end of input: input() raises EOFError, which nothing catches
ReadEOF ==
    /\ caller = "main"
    /\ pc = "prompt"
    /\ fatal' = "EOFError"
    /\ pc' = "crashed"
    /\ UNCHANGED <<caller, linesRead, text_to_convert, input_text, params, response,
                   data, exc, handler, result, fnPrinted, loopPrinted, netRequests,
                   callsForLine>>

\* lines 89-97
Report ==
    /\ caller = "main"
    /\ pc = "returned"
    /\ LET s == result.val IN
       IF s = None
       THEN /\ loopPrinted' = [msg |-> "An error occurred. Could not fetch suggestions.",
                               items |-> << >>]
            /\ pc' = "prompt"
            /\ UNCHANGED fatal
       ELSE IF ~Truthy(s)
       THEN /\ loopPrinted' = [msg |-> "No suggestions found.", items |-> << >>]
            /\ pc' = "prompt"
            /\ UNCHANGED fatal
       ELSE IF IsIterable(s)
       THEN /\ loopPrinted' = [msg |-> "Suggestions:", items |-> Items(s)]
            /\ pc' = "prompt"
            /\ UNCHANGED fatal
       ELSE \* enumerate() of a number or True raises TypeError after the heading
            /\ loopPrinted' = [msg |-> "Suggestions:", items |-> << >>]
            /\ fatal' = "TypeError"
            /\ pc' = "crashed"
    /\ UNCHANGED <<caller, linesRead, text_to_convert, input_text, params, response,
                   data, exc, handler, result, fnPrinted, netRequests, callsForLine>>

Next ==
    \/ ReadLine
    \/ ReadEOF
    \/ Enter
    \/ Get
    \/ RaiseForStatus
    \/ Json
    \/ Extract
    \/ Except
    \/ Report

Spec == Init /\ [][Next]_vars

----------------------------------------------------------------------------
(* Vocabulary of the properties *)

\* the call of the function has ended, by a return or by an exception leaving it
CallEnded == result.kind # "none"

\* the function has been entered and has got past line 59 with a decoded body
Decoded == data.t # "unset"

\* every element a str
IsStringList(x) == x.t = "arr" /\ \A i \in 1..Len(x.v) : x.v[i].t = "str"

\* ["SUCCESS", [[echo, suggestions, ...], ...]] with an array of suggestions
HasResults(d) ==
    /\ d.t = "arr" /\ Len(d.v) >= 2
    /\ d.v[1].t = "str" /\ d.v[1].v = <<"S", "U", "C", "C", "E", "S", "S">>
    /\ d.v[2].t = "arr" /\ Len(d.v[2].v) >= 1
    /\ d.v[2].v[1].t = "arr" /\ Len(d.v[2].v[1].v) >= 2
    /\ d.v[2].v[1].v[2].t = "arr"

SuggestionsOf(d) == d.v[2].v[1].v[2]

\* a status element other than "SUCCESS", or ["SUCCESS", []]
HasNoResults(d) ==
    /\ d.t = "arr" /\ Len(d.v) >= 1
    /\ \/ ~(d.v[1].t = "str" /\ d.v[1].v = <<"S", "U", "C", "C", "E", "S", "S">>)
       \/ Len(d.v) >= 2 /\ d.v[2].t = "arr" /\ d.v[2].v = << >>

ErrorBranches == {"RequestException", "JSONDecodeError", "IndexError,TypeError"}

----------------------------------------------------------------------------
(* C1: a call with an empty input_text returns the empty list and issues no
   network request. *)
C1_EmptyInputNoRequest ==
    (callsForLine > 0 /\ input_text = << >>)
        => /\ pc = "returned"
           /\ result = Return(EmptyList)
           /\ netRequests = 0
           /\ response = NoResponse

C1_Witness ==
    callsForLine > 0 /\ input_text = << >> /\ pc = "returned" /\ CallEnded

(* C2: when the decoded body is ["SUCCESS", [[echo, suggestions, ...], ...]]
   with a non-empty payload, the call returns exactly the suggestions array of
   the first entry: same elements, same order; no except clause runs. *)
C2_ReturnsFirstEntrySuggestions ==
    (Decoded /\ HasResults(data) /\ pc # "unwrap")
        => /\ result = Return(SuggestionsOf(data))
           /\ handler = ""
           /\ fnPrinted = ""

C2_Witness ==
    /\ Decoded /\ HasResults(data) /\ pc = "returned"
    /\ result.val = JArr(<<Sug1, Sug2>>)
    /\ Len(data.v[2].v[1].v) = 4

(* C3: when the status element is not "SUCCESS", or the payload array is
   empty, the call returns the empty list with no except clause run; every
   call that an except clause handled returns None instead, and the loop
   reports the two differently. *)
C3_EmptyIsNotFailure ==
    /\ (Decoded /\ HasNoResults(data) /\ pc # "unwrap")
          => /\ result = Return(EmptyList)
             /\ handler = ""
             /\ fnPrinted = ""
             /\ (caller = "main" /\ pc = "prompt")
                   => loopPrinted.msg = "No suggestions found."
    /\ handler \in ErrorBranches
          => /\ result = Return(None)
             /\ result # Return(EmptyList)
             /\ (caller = "main" /\ pc = "prompt")
                   => loopPrinted.msg = "An error occurred. Could not fetch suggestions."

C3_Witness ==
    /\ caller = "main" /\ pc = "prompt"
    /\ Decoded /\ data = JArr(<<SUCCESS, EmptyList>>)
    /\ result = Return(EmptyList)

(* C4 as claimed: a suggestions array longer than num = 5 comes back cut to
   its first five entries, and no returned list is longer than five. *)
C4_TruncatedToNum ==
    /\ (Decoded /\ HasResults(data) /\ Len(SuggestionsOf(data).v) > NumSuggestions
            /\ pc # "unwrap")
          => result = Return(JArr(SubSeq(SuggestionsOf(data).v, 1, NumSuggestions)))
    /\ (result.kind = "return" /\ result.val.t = "arr")
          => Len(result.val.v) <= NumSuggestions

(* C4 amended: a suggestions array longer than num = 5, the count sent in the
   request, comes back whole: every entry, in the provider's order, so the
   result is longer than five. *)
C4_LongListReturnedWhole ==
    (Decoded /\ HasResults(data) /\ Len(SuggestionsOf(data).v) > 5 /\ pc # "unwrap")
        => /\ params.num = 5
           /\ result.kind = "return"
           /\ result.val.t = "arr"
           /\ Len(result.val.v) = Len(SuggestionsOf(data).v)
           /\ \A i \in 1..Len(result.val.v) : result.val.v[i] = SuggestionsOf(data).v[i]

C4_Witness ==
    /\ Decoded /\ HasResults(data) /\ pc = "returned"
    /\ result.kind = "return" /\ result.val.t = "arr" /\ Len(result.val.v) = 6
    /\ result.val.v[1] # result.val.v[6]

(* C5 as claimed: once the body is decoded, whatever its shape, the call
   either returns a list, possibly empty, whose elements are all str, or
   fails with None; it never returns any other value and no exception
   leaves it. *)
C5_StringListOrMalformed ==
    (Decoded /\ CallEnded)
        => \/ result.kind = "return" /\ IsStringList(result.val)
           \/ result = Return(None)

(* C6: a call with a non-empty input_text invokes requests.get exactly once:
   never more than once at any point, and once from the request on, whether
   the call returns, fails in an except clause or lets an exception out. *)
C6_ExactlyOneRequest ==
    (callsForLine > 0 /\ input_text # << >>)
        => /\ netRequests <= 1
           /\ pc \notin {"entry", "get"} => netRequests = 1
           /\ (handler # "" \/ exc # "") => netRequests = 1

C6_Witness ==
    /\ callsForLine > 0 /\ input_text # << >>
    /\ handler = "IndexError,TypeError" /\ pc = "returned" /\ netRequests = 1

(* C7 as claimed: a connection error, a timeout or any status outside 2xx
   ends the call in the RequestException clause with None, the body never
   decoded. *)
C7_Non2xxIsTransportFailure ==
    /\ (CallEnded /\ response = NoResponse /\ exc \in {"ConnectionError", "Timeout"})
          => result = Return(None) /\ handler = "RequestException" /\ ~Decoded
    /\ (CallEnded /\ response # NoResponse
            /\ ~(200 <= response.status /\ response.status <= 299))
          => result = Return(None) /\ handler = "RequestException" /\ ~Decoded

(* C7 amended: a connection error, a timeout or a 4xx/5xx status ends the
   call in the RequestException clause: it prints the request error and
   returns None, and the body is never decoded. *)
C7_TransportFailure ==
    /\ (response = NoResponse /\ exc \in {"ConnectionError", "Timeout"})
          => /\ ~Decoded
             /\ pc \in {"except", "returned", "prompt", "crashed"}
             /\ pc # "except"
                   => /\ result = Return(None)
                      /\ handler = "RequestException"
                      /\ fnPrinted = "Error during request"
    /\ (response # NoResponse /\ response.status \in 400..599
            /\ pc # "raise_for_status")
          => /\ ~Decoded
             /\ exc = "HTTPError"
             /\ pc \in {"except", "returned", "prompt", "crashed"}
             /\ pc # "except"
                   => /\ result = Return(None)
                      /\ handler = "RequestException"
                      /\ fnPrinted = "Error during request"

C7_Witness ==
    /\ response # NoResponse /\ response.status = 500
    /\ response.body.t = "json"
    /\ pc = "returned" /\ result = Return(None)

(* C8 as claimed: a 2xx response whose body is not JSON ends the call in the
   JSONDecodeError clause, not in the RequestException clause nor in the
   clause for a malformed structure, and the call returns None. *)
C8_DecodeFailureOwnBranch ==
    (CallEnded /\ response # NoResponse
        /\ 200 <= response.status /\ response.status <= 299
        /\ response.body.t = "text")
        => /\ handler = "JSONDecodeError"
           /\ result = Return(None)
           /\ fnPrinted = "Error: Could not decode JSON response"

(* C9 as claimed: in the loop no exception leaves
   get_kannada_transliteration and none raised over a call's result ends the
   process: the loop ends only by quit or by the end of the input. *)
C9_NoCallErrorIsFatal ==
    caller = "main" => result.kind # "raise" /\ fatal \in {"", "EOFError"}

\* case-insensitively equal to quit
IsQuitLine(l) ==
    /\ Len(l) = 4
    /\ l[1] \in {"q", "Q"} /\ l[2] \in {"u", "U"}
    /\ l[3] \in {"i", "I"} /\ l[4] \in {"t", "T"}

\* empty or whitespace only
IsBlankLine(l) == \A i \in 1..Len(l) : l[i] \in {" ", "\t"}

\* the state of the loop after the line it read last
LineHandled ==
    (caller = "main" /\ linesRead > 0)
        => /\ IsQuitLine(text_to_convert)
                 => pc = "exited" /\ callsForLine = 0 /\ netRequests = 0
           /\ (IsBlankLine(text_to_convert) /\ ~IsQuitLine(text_to_convert))
                 => pc \in {"prompt", "crashed"} /\ callsForLine = 0 /\ netRequests = 0
           /\ (~IsBlankLine(text_to_convert) /\ ~IsQuitLine(text_to_convert))
                 => /\ pc # "exited"
                    /\ input_text = text_to_convert
                    /\ callsForLine = (IF pc = "entry" THEN 0 ELSE 1)
                    /\ pc = "prompt" => result.kind = "return" /\ loopPrinted.msg # ""

\* a line is read only at the prompt, one at a time, and nothing happens after the break
OneLineAtATime ==
    /\ pc # "exited"
    /\ linesRead' # linesRead => pc = "prompt" /\ linesRead' = linesRead + 1
    /\ callsForLine' <= 1

(* C10: the loop handles the lines one after another: a blank line makes no
   call and no request and leads back to the prompt; any other line that is
   not quit makes exactly one call, ended before the next prompt; a line that
   is quit in any letter case ends the loop with no call, and no step follows. *)
C10_LoopHandlesLinesInOrder == [] LineHandled /\ [][OneLineAtATime]_vars

C10_Witness ==
    /\ caller = "main" /\ pc = "exited" /\ linesRead = 2
    /\ text_to_convert = <<"Q", "u", "i", "T">>
    /\ callsForLine = 0

====
